---------------------------- MODULE Spec2Model ----------------------------
(***************************************************************************)
(* A model of the sailfish LBM engine (sailfish/lbm.py): construction      *)
(* (option parsing, model selection), the setup of a run (code generation, *)
(* device buffers, kernels, initial conditions), the double-buffered step  *)
(* engine (LBMSim._lbm_step, TwoPhase._lbm_step, sim_step), the hook       *)
(* registry (add_iter_hook, clear_hooks), the iteration scheduler          *)
(* (_run_batch, _run_benchmark, run) and the throughput meter (get_mlups). *)
(*                                                                         *)
(* The compute backend is a collaborator: the model records the calls the  *)
(* engine makes on it (run_kernel, from_buf, sync) and which kinds of work *)
(* have been queued on the device since the last sync.                     *)
(***************************************************************************)
EXTENDS Integers, Sequences, FiniteSets, TLC

VARIABLES
    variant,            \* "single" (LBMSim/FluidLBMSim) or "twophase" (TwoPhase)
    dim,                \* self.grid.dim
    num_tracers,        \* self.num_tracers
    options,            \* self.options: benchmark, batch, output, every, max_iters,
                        \* lat_nx, precision, save_src, use_src, format_src
    ic_fields,          \* self.ic_fields
    rendered,           \* the text lbm_tmpl.render(**ctx) returns
    use_file,           \* the file options.use_src names: whether it can be read, its text
    args,               \* the command-line settings of the options model and
                        \* incompressible, as (dest, value) pairs in order
    defaults,           \* the constructor's defaults argument: None, or its items
    grid_models,        \* the models self.grid.model_supported accepts
    alloc_fail,         \* which backend.alloc_buf call of the run raises (0: none)
    specified,          \* self.options.specified
    lbm_model,          \* self.lbm_model, or Unset while the attribute does not exist
    save_file,          \* the file options.save_src names
    mod,                \* self.mod: the source text handed to backend.build
    codelog,            \* what _init_code did, in order
    allocated,          \* the device buffers backend.alloc_buf has returned, in order
    runlog,             \* the stages run() has completed, in order
    iter_,              \* self.iter_
    mlups_calls,        \* self._mlups_calls
    mlups,              \* self._mlups, an exact fraction <<numerator, denominator>>
    mlups_last,         \* the last get_mlups call: what it returned, the sum of the
                        \* instantaneous values so far, the device queue when it was made
    iter__hooks,        \* self.iter__hooks: index -> list of hooks
    iter__hooks_every,  \* self.iter__hooks_every: the (interval, hooks) items in iteration order
    nhooks,             \* number of add_iter_hook calls so far; hook n is the n-th registered
    pc,                 \* where the program is: "new" (not yet constructed), "ready",
                        \* "batch", "benchmark", "vis", "done", or the exception that
                        \* ended it: "failed", "io_error" (override unreadable),
                        \* "config_error", "attribute_error", "backend_error"
    idx,                \* the loop variable i of _run_batch
    calls,              \* number of sim_step calls so far
    step,               \* the most recent sim_step call: index, arguments, branch, backend calls
    prev,               \* the sim_step call before it
    ops,                \* backend calls of the most recent engine operation
    pending,            \* kinds of device work queued since the last backend.sync()
    fired               \* hook invocations of _run_batch, in order

vars == <<variant, dim, num_tracers, options, ic_fields, rendered, use_file,
          args, defaults, grid_models, alloc_fail, specified, lbm_model,
          save_file, mod, codelog, allocated, runlog,
          iter_, mlups_calls, mlups, mlups_last,
          iter__hooks, iter__hooks_every, nhooks, pc, idx, calls,
          step, prev, ops, pending, fired>>

(***************************************************************************)
(* Bounds of the model.                                                    *)
(***************************************************************************)
MaxEvery == 2        \* options.every ranges over 1..MaxEvery
MaxIters == 2        \* options.max_iters ranges over 0..MaxIters in Spec
MaxCalls == 3        \* sim_step calls made by the visualization driver
MaxHooks == 1        \* add_iter_hook calls in Spec
MaxTdiff == 2        \* a measured time difference ranges over 1..MaxTdiff microseconds
ActiveNodes == 3     \* geo.count_active_nodes()
BatchIters == 10     \* options.max_iters ranges over -1..BatchIters in SpecBatch
BatchHooks == 2      \* add_iter_hook calls in SpecBatch
MaxInterval == 3     \* periodic hook intervals range over 1..MaxInterval

(***************************************************************************)
(* Device buffers (LBMSim._init_compute_fields, TwoPhase._init_compute_    *)
(* fields), named as the attributes that hold them.                        *)
(***************************************************************************)
gpu_velocity ==
    IF dim = 3 THEN <<"gpu_vx", "gpu_vy", "gpu_vz">> ELSE <<"gpu_vx", "gpu_vy">>

gpu_tracer_loc ==
    IF num_tracers # 0
    THEN IF dim = 3 THEN <<"gpu_tracer_x", "gpu_tracer_y", "gpu_tracer_z">>
                    ELSE <<"gpu_tracer_x", "gpu_tracer_y">>
    ELSE <<>>

(***************************************************************************)
(* backend.get_kernel: a kernel bound to its argument list and its launch  *)
(* block size.                                                             *)
(***************************************************************************)
get_kernel(name, args_, block) == [name |-> name, args |-> args_, block |-> block]

NoKernel == [name |-> "-", args |-> <<>>, block |-> <<>>]

(***************************************************************************)
(* LBMSim.__init__, lines 187-194: the workgroup size, and                 *)
(* LBMSim._kernel_block_size.                                              *)
(***************************************************************************)
BlockSizeDefault == 64

\* the block size left at its default whatever lat_nx is
block_size_unadjusted == BlockSizeDefault

block_size ==
    IF options.lat_nx < BlockSizeDefault THEN options.lat_nx ELSE BlockSizeDefault

_kernel_block_size == IF dim = 2 THEN <<block_size, 1>> ELSE <<block_size, 1, 1>>

k_block_size == _kernel_block_size

(***************************************************************************)
(* LBMSim._init_compute_kernels, lines 555-558 (TwoPhase: lines 1015-1018):*)
(* the launch grid, which the launches name as self.kern_grid_size; the    *)
(* divisions are integer divisions.  LBMSim.get_dist_size, lines 306-307.  *)
(***************************************************************************)
kern_grid_size ==
    IF dim = 2
    THEN <<options.lat_nx \div block_size, options.lat_ny>>
    ELSE <<(options.lat_nx \div block_size) * options.lat_ny, options.lat_nz>>

get_dist_size == options.lat_nx * options.lat_ny * options.lat_nz

(***************************************************************************)
(* Backend calls.                                                          *)
(***************************************************************************)
run_kernel(kern, grid) == [op |-> "run_kernel", kern |-> kern, grid |-> grid, buf |-> "-"]

from_buf(buf) == [op |-> "from_buf", kern |-> NoKernel, grid |-> "-", buf |-> buf]

sync == [op |-> "sync", kern |-> NoKernel, grid |-> "-", buf |-> "-"]

FromBufs(bufs) == [n \in 1..Len(bufs) |-> from_buf(bufs[n])]


(***************************************************************************)
(* The device queue: kinds of work issued and not yet waited for.  sync    *)
(* blocks until all outstanding device work completes.                     *)
(***************************************************************************)
RECURSIVE Queue(_, _)
Queue(p, calls_) ==
    IF calls_ = <<>> THEN p
    ELSE LET c == Head(calls_)
         IN Queue(IF c.op = "sync" THEN {}
                  ELSE IF c.op = "from_buf" THEN p \cup {"copy"}
                  ELSE p \cup {"kernel"},
                  Tail(calls_))

(***************************************************************************)
(* LBMSim.hostsync_*: copies followed by a sync.                           *)
(***************************************************************************)
\* hostsync_dist that copies the buffer of the other parity
hostsync_dist_other(it) ==
    IF it % 2 = 1 THEN <<from_buf("gpu_dist1a"), sync>>
                  ELSE <<from_buf("gpu_dist1b"), sync>>

hostsync_dist(it) ==
    IF it % 2 = 1 THEN <<from_buf("gpu_dist1b"), sync>>
                  ELSE <<from_buf("gpu_dist1a"), sync>>

hostsync_velocity == FromBufs(gpu_velocity) \o <<sync>>

\* hostsync_density that returns without waiting for the copy
hostsync_density_nosync == <<from_buf("gpu_rho")>>

hostsync_density == <<from_buf("gpu_rho"), sync>>

hostsync_tracers == FromBufs(gpu_tracer_loc) \o <<sync>>

(***************************************************************************)
(* LBMSim._init_compute_kernels: the argument lists and the kernels of     *)
(* the single-fluid engine.                                                *)
(***************************************************************************)
args_tracer2 == <<"gpu_dist1a", "gpu_map">> \o gpu_tracer_loc

args_tracer1 == <<"gpu_dist1b", "gpu_map">> \o gpu_tracer_loc

args1 == <<"gpu_map", "gpu_dist1a", "gpu_dist1b", "gpu_rho">> \o gpu_velocity \o <<"uint32(0)">>

\* args2 written as a copy of args1: the buffers not swapped
args2_noswap ==
    <<"gpu_map", "gpu_dist1a", "gpu_dist1b", "gpu_rho">> \o gpu_velocity \o <<"uint32(0)">>

args2 == <<"gpu_map", "gpu_dist1b", "gpu_dist1a", "gpu_rho">> \o gpu_velocity \o <<"uint32(0)">>

args1v == <<"gpu_map", "gpu_dist1a", "gpu_dist1b", "gpu_rho">> \o gpu_velocity \o <<"uint32(1)">>

args2v == <<"gpu_map", "gpu_dist1b", "gpu_dist1a", "gpu_rho">> \o gpu_velocity \o <<"uint32(1)">>

kern_cnp1 == get_kernel("CollideAndPropagate", args1, k_block_size)

kern_cnp2 == get_kernel("CollideAndPropagate", args2, k_block_size)

kern_cnp1s == get_kernel("CollideAndPropagate", args1v, k_block_size)

kern_cnp2s == get_kernel("CollideAndPropagate", args2v, k_block_size)

kern_trac1 == get_kernel("LBMUpdateTracerParticles", args_tracer1, <<1>>)

kern_trac2 == get_kernel("LBMUpdateTracerParticles", args_tracer2, <<1>>)

\* Map: iteration parity -> kernels to use.
kern_map(parity) ==
    IF parity = 0 THEN <<kern_cnp1, kern_cnp1s, kern_trac1>>
                  ELSE <<kern_cnp2, kern_cnp2s, kern_trac2>>

(***************************************************************************)
(* TwoPhase._init_compute_kernels.                                         *)
(***************************************************************************)
cnp_args1n ==
    <<"gpu_map", "gpu_dist1a", "gpu_dist1b", "gpu_dist2a", "gpu_dist2b", "gpu_rho", "gpu_phi">>
        \o gpu_velocity \o <<"uint32(0)">>

cnp_args1s ==
    <<"gpu_map", "gpu_dist1a", "gpu_dist1b", "gpu_dist2a", "gpu_dist2b", "gpu_rho", "gpu_phi">>
        \o gpu_velocity \o <<"uint32(1)">>

cnp_args2n ==
    <<"gpu_map", "gpu_dist1b", "gpu_dist1a", "gpu_dist2b", "gpu_dist2a", "gpu_rho", "gpu_phi">>
        \o gpu_velocity \o <<"uint32(0)">>

cnp_args2s ==
    <<"gpu_map", "gpu_dist1b", "gpu_dist1a", "gpu_dist2b", "gpu_dist2a", "gpu_rho", "gpu_phi">>
        \o gpu_velocity \o <<"uint32(1)">>

macro_args1 == <<"gpu_map", "gpu_dist1a", "gpu_dist2a", "gpu_rho", "gpu_phi">>

\* macro_args2 written as a copy of macro_args1
macro_args2_copy == <<"gpu_map", "gpu_dist1a", "gpu_dist2a", "gpu_rho", "gpu_phi">>

macro_args2 == <<"gpu_map", "gpu_dist1b", "gpu_dist2b", "gpu_rho", "gpu_phi">>

kern_cnp1n == get_kernel("CollideAndPropagate", cnp_args1n, k_block_size)

TwoPhase_kern_cnp1s == get_kernel("CollideAndPropagate", cnp_args1s, k_block_size)

kern_cnp2n == get_kernel("CollideAndPropagate", cnp_args2n, k_block_size)

TwoPhase_kern_cnp2s == get_kernel("CollideAndPropagate", cnp_args2s, k_block_size)

kern_mac1 == get_kernel("PrepareMacroFields", macro_args1, k_block_size)

kern_mac2 == get_kernel("PrepareMacroFields", macro_args2, k_block_size)

\* Map: iteration parity -> kernels to use.
TwoPhase_kern_map(parity) ==
    IF parity = 0 THEN <<kern_mac1, kern_cnp1n, TwoPhase_kern_cnp1s>>
                  ELSE <<kern_mac2, kern_cnp2n, TwoPhase_kern_cnp2s>>

(***************************************************************************)
(* LBMSim._init_compute_ic and TwoPhase._init_compute_ic: the backend      *)
(* calls that set the initial distributions from the macroscopic fields.   *)
(* In LBMSim kern2 is built from args1 (line 486).                         *)
(***************************************************************************)
ic_args1 == <<"gpu_dist1a">> \o gpu_velocity \o <<"gpu_rho">>

ic_args2 == <<"gpu_dist1b">> \o gpu_velocity \o <<"gpu_rho">>

ic_kern1 == get_kernel("SetInitialConditions", ic_args1, _kernel_block_size)

\* the second kernel bound to its own argument list
ic_kern2_own_args == get_kernel("SetInitialConditions", ic_args2, _kernel_block_size)

ic_kern2 == get_kernel("SetInitialConditions", ic_args1, _kernel_block_size)

TwoPhase_ic_args1 ==
    <<"gpu_dist1a", "gpu_dist2a">> \o gpu_velocity \o <<"gpu_rho", "gpu_phi">>

TwoPhase_ic_args2 ==
    <<"gpu_dist1b", "gpu_dist2b">> \o gpu_velocity \o <<"gpu_rho", "gpu_phi">>

TwoPhase_ic_kern1 == get_kernel("SetInitialConditions", TwoPhase_ic_args1, _kernel_block_size)

TwoPhase_ic_kern2 == get_kernel("SetInitialConditions", TwoPhase_ic_args2, _kernel_block_size)

_init_compute_ic ==
    IF ~ic_fields THEN <<>>
    ELSE IF variant = "twophase"
         THEN <<run_kernel(TwoPhase_ic_kern1, "kern_grid_size"),
                run_kernel(TwoPhase_ic_kern2, "kern_grid_size"), sync>>
         ELSE <<run_kernel(ic_kern1, "kern_grid_size"),
                run_kernel(ic_kern2, "kern_grid_size"), sync>>

\* _lbm_step whose no-data branch launches the write-macroscopic kernel
_lbm_step_macro(it, get_data, tracers) ==
    LET kerns == kern_map(it % 2)
    IN  IF get_data
        THEN <<run_kernel(kerns[2], "kern_grid_size")>>
             \o (IF tracers
                 THEN <<run_kernel(kerns[3], "(num_tracers,)")>> \o hostsync_tracers
                 ELSE <<>>)
             \o hostsync_velocity
             \o hostsync_density
        ELSE <<run_kernel(kerns[2], "kern_grid_size")>>
             \o (IF tracers THEN <<run_kernel(kerns[3], "(num_tracers,)")>> ELSE <<>>)

(***************************************************************************)
(* LBMSim._lbm_step: the backend calls of one step at iteration `it`.      *)
(* kerns[n] of the source is kerns[n+1] here.                              *)
(***************************************************************************)
_lbm_step(it, get_data, tracers) ==
    LET kerns == kern_map(it % 2)
    IN  IF get_data
        THEN <<run_kernel(kerns[2], "kern_grid_size")>>
             \o (IF tracers
                 THEN <<run_kernel(kerns[3], "(num_tracers,)")>> \o hostsync_tracers
                 ELSE <<>>)
             \o hostsync_velocity
             \o hostsync_density
        ELSE <<run_kernel(kerns[1], "kern_grid_size")>>
             \o (IF tracers THEN <<run_kernel(kerns[3], "(num_tracers,)")>> ELSE <<>>)

(***************************************************************************)
(* TwoPhase._lbm_step.                                                     *)
(***************************************************************************)
TwoPhase__lbm_step(it, get_data, tracers) ==
    LET kerns == TwoPhase_kern_map(it % 2)
    IN  <<run_kernel(kerns[1], "kern_grid_size"), sync>>
        \o (IF get_data
            THEN <<run_kernel(kerns[3], "kern_grid_size")>>
                 \o hostsync_velocity
                 \o hostsync_density
            ELSE <<run_kernel(kerns[2], "kern_grid_size")>>)

\* self._lbm_step, dispatched on the class of the engine.
self_lbm_step(it, get_data, tracers) ==
    IF variant = "twophase" THEN TwoPhase__lbm_step(it, get_data, tracers)
                            ELSE _lbm_step(it, get_data, tracers)

(***************************************************************************)
(* LBMSim.sim_step on the engine state e = [iter_, calls, ops, step, prev, *)
(* pending]: the state after the call.  The step record keeps what the     *)
(* call did: its index i, its arguments, the branch taken (data), the      *)
(* backend calls, the _output_data calls and the device queue at return.   *)
(***************************************************************************)
NoStep == [i |-> -1, tracers |-> FALSE, get_data |-> FALSE, data |-> FALSE,
           ops |-> <<>>, output |-> <<>>, pending |-> {}, iter_after |-> 0]

\* sim_step that increments iter_ in the extraction branch only
sim_step_noinc(e, tracers, get_data) ==
    LET i == e.iter_
        data == \/ /\ ~options.benchmark
                   /\ (~options.batch \/ (options.batch /\ options.output))
                   /\ i % options.every = 0
                \/ get_data
        o == self_lbm_step(i, data, tracers)
        out == IF data /\ options.output /\ i % options.every = 0 THEN <<i>> ELSE <<>>
        q == Queue(e.pending, o)
        after == IF data THEN i + 1 ELSE i
    IN  [iter_ |-> after,
         calls |-> e.calls + 1,
         ops |-> e.ops \o o,
         step |-> [i |-> i, tracers |-> tracers, get_data |-> get_data, data |-> data,
                   ops |-> o, output |-> out, pending |-> q, iter_after |-> after],
         prev |-> e.step,
         pending |-> q]

\* sim_step that does not look at options.benchmark
sim_step_nobench(e, tracers, get_data) ==
    LET i == e.iter_
        data == \/ /\ (~options.batch \/ (options.batch /\ options.output))
                   /\ i % options.every = 0
                \/ get_data
        o == self_lbm_step(i, data, tracers)
        out == IF data /\ options.output /\ i % options.every = 0 THEN <<i>> ELSE <<>>
        q == Queue(e.pending, o)
    IN  [iter_ |-> i + 1,
         calls |-> e.calls + 1,
         ops |-> e.ops \o o,
         step |-> [i |-> i, tracers |-> tracers, get_data |-> get_data, data |-> data,
                   ops |-> o, output |-> out, pending |-> q, iter_after |-> i + 1],
         prev |-> e.step,
         pending |-> q]

\* sim_step that ignores its get_data argument
sim_step_noget(e, tracers, get_data) ==
    LET i == e.iter_
        data == \/ /\ ~options.benchmark
                   /\ (~options.batch \/ (options.batch /\ options.output))
                   /\ i % options.every = 0
                \/ FALSE
        o == self_lbm_step(i, data, tracers)
        out == IF data /\ options.output /\ i % options.every = 0 THEN <<i>> ELSE <<>>
        q == Queue(e.pending, o)
    IN  [iter_ |-> i + 1,
         calls |-> e.calls + 1,
         ops |-> e.ops \o o,
         step |-> [i |-> i, tracers |-> tracers, get_data |-> get_data, data |-> data,
                   ops |-> o, output |-> out, pending |-> q, iter_after |-> i + 1],
         prev |-> e.step,
         pending |-> q]

\* sim_step that calls _output_data after every extraction, not only when i % every = 0
sim_step_output_always(e, tracers, get_data) ==
    LET i == e.iter_
        data == \/ /\ ~options.benchmark
                   /\ (~options.batch \/ (options.batch /\ options.output))
                   /\ i % options.every = 0
                \/ get_data
        o == self_lbm_step(i, data, tracers)
        out == IF data /\ options.output THEN <<i>> ELSE <<>>
        q == Queue(e.pending, o)
    IN  [iter_ |-> i + 1,
         calls |-> e.calls + 1,
         ops |-> e.ops \o o,
         step |-> [i |-> i, tracers |-> tracers, get_data |-> get_data, data |-> data,
                   ops |-> o, output |-> out, pending |-> q, iter_after |-> i + 1],
         prev |-> e.step,
         pending |-> q]

sim_step(e, tracers, get_data) ==
    LET i == e.iter_
        data == \/ /\ ~options.benchmark
                   /\ (~options.batch \/ (options.batch /\ options.output))
                   /\ i % options.every = 0
                \/ get_data
        o == self_lbm_step(i, data, tracers)
        out == IF data /\ options.output /\ i % options.every = 0 THEN <<i>> ELSE <<>>
        q == Queue(e.pending, o)
    IN  [iter_ |-> i + 1,
         calls |-> e.calls + 1,
         ops |-> e.ops \o o,
         step |-> [i |-> i, tracers |-> tracers, get_data |-> get_data, data |-> data,
                   ops |-> o, output |-> out, pending |-> q, iter_after |-> i + 1],
         prev |-> e.step,
         pending |-> q]

\* The engine state at the start of an operation: no backend call issued by it yet.
Engine == [iter_ |-> iter_, calls |-> calls, ops |-> <<>>, step |-> step, prev |-> prev,
           pending |-> pending]

\* for i in xrange(0, n): self.sim_step(tracers=False)
RECURSIVE sim_steps(_, _)
sim_steps(e, n) == IF n <= 0 THEN e ELSE sim_steps(sim_step(e, FALSE, FALSE), n - 1)


(***************************************************************************)
(* Exact fractions <<numerator, denominator>> for the throughput figures.  *)
(***************************************************************************)
RECURSIVE Gcd(_, _)
Gcd(a, b) == IF b = 0 THEN a ELSE Gcd(b, a % b)

Frac(n, d) == LET g == Gcd(n, d) IN IF g = 0 THEN <<0, 1>> ELSE <<n \div g, d \div g>>

(***************************************************************************)
(* LBMSim.get_mlups(tdiff, iters): the new (_mlups, mlups) pair.  tdiff is *)
(* in microseconds, so that the factor 1e-6 / tdiff is 1 / tdiff.          *)
(***************************************************************************)
\* get_mlups that averages the new value with the old average, unweighted
get_mlups_unweighted(tdiff, iters, active_nodes) ==
    LET it == IF iters # -1 THEN iters ELSE options.every
        inst == Frac(it * active_nodes, tdiff)
        blended == IF mlups_calls = 0 THEN inst
                   ELSE Frac(inst[1] * mlups[2] + mlups[1] * inst[2],
                             inst[2] * mlups[2] * 2)
    IN  <<blended, inst>>

get_mlups(tdiff, iters, active_nodes) ==
    LET it == IF iters # -1 THEN iters ELSE options.every
        inst == Frac(it * active_nodes, tdiff)
        blended == Frac(inst[1] * mlups[2] + mlups[1] * mlups_calls * inst[2],
                        inst[2] * mlups[2] * (mlups_calls + 1))
    IN  <<blended, inst>>

FracAdd(x, y) == Frac(x[1] * y[2] + y[1] * x[2], x[2] * y[2])

\* No get_mlups call made yet.
NoMlups == [n |-> 0, tdiff |-> 0, iters |-> -1, ret |-> <<<<0, 1>>, <<0, 1>>>>,
            sum |-> <<0, 1>>, pending |-> {}]

\* The n-th get_mlups call: its arguments, what it returned, the sum of the
\* instantaneous values so far and the device queue q it was made with.
MlupsCall(tdiff, iters, ret, q) ==
    [n |-> mlups_last.n + 1, tdiff |-> tdiff, iters |-> iters, ret |-> ret,
     sum |-> FracAdd(mlups_last.sum, ret[2]), pending |-> q]

(***************************************************************************)
(* The hook registry.  iter__hooks is a dict: a function on its keys.      *)
(* iter__hooks_every is a dict whose iteritems() order _run_batch depends  *)
(* on: it is kept as the sequence of its items in iteration order.  A      *)
(* Python 2 dict does not iterate in insertion order: CPython visits the   *)
(* slots of its table in order, and the slot of a small non-negative int   *)
(* key of a small dict is the key itself, so the items come in ascending   *)
(* order of their keys.                                                    *)
(***************************************************************************)
HasKey(items, k) == \E n \in 1..Len(items) : items[n].k = k

\* self.iter__hooks.setdefault(i, []).append(func)
hooks_add(h, i, func) ==
    IF i \in DOMAIN h THEN [h EXCEPT ![i] = Append(@, func)]
                      ELSE h @@ (i :> <<func>>)

\* self.iter__hooks_every.setdefault(i, []).append(func)
hooks_every_add(items, k, func) ==
    IF HasKey(items, k)
    THEN [n \in 1..Len(items) |->
             IF items[n].k = k THEN [items[n] EXCEPT !.hooks = Append(@, func)]
                               ELSE items[n]]
    ELSE LET pos == 1 + Cardinality({n \in 1..Len(items) : items[n].k < k})
         IN  SubSeq(items, 1, pos - 1) \o <<[k |-> k, hooks |-> <<func>>]>>
                 \o SubSeq(items, pos, Len(items))

\* self.iter__hooks.get(i, [])
hooks_get(h, i) == IF i \in DOMAIN h THEN h[i] ELSE <<>>

\* need_data that looks at the exact-match hooks only
need_data_exact(it) == it \in DOMAIN iter__hooks

(***************************************************************************)
(* LBMSim._run_batch, lines 712-721: whether the step at iter_ needs data. *)
(***************************************************************************)
need_data(it) ==
    \/ it \in DOMAIN iter__hooks
    \/ \E n \in 1..Len(iter__hooks_every) : it % iter__hooks_every[n].k = 0

(***************************************************************************)
(* LBMSim._run_batch, lines 725-731: the hooks called after the step that  *)
(* made iter_ = it, in call order.                                         *)
(***************************************************************************)
RECURSIVE every_hooks_due(_, _)
every_hooks_due(items, it) ==
    IF items = <<>> THEN <<>>
    ELSE (IF (it - 1) % Head(items).k = 0 THEN Head(items).hooks ELSE <<>>)
         \o every_hooks_due(Tail(items), it)

\* hooks_due that looks the exact-match hooks up under iter_, not iter_ - 1
hooks_due_current(it) ==
    LET exact == hooks_get(iter__hooks, it)
        every == every_hooks_due(iter__hooks_every, it)
    IN  [n \in 1..Len(exact) |-> [hook |-> exact[n], kind |-> "exact"]]
        \o [n \in 1..Len(every) |-> [hook |-> every[n], kind |-> "every"]]

\* hooks_due that calls the periodic hooks before the exact-match ones
hooks_due_every_first(it) ==
    LET exact == hooks_get(iter__hooks, it - 1)
        every == every_hooks_due(iter__hooks_every, it)
    IN  [n \in 1..Len(every) |-> [hook |-> every[n], kind |-> "every"]]
        \o [n \in 1..Len(exact) |-> [hook |-> exact[n], kind |-> "exact"]]

hooks_due(it) ==
    LET exact == hooks_get(iter__hooks, it - 1)
        every == every_hooks_due(iter__hooks_every, it)
    IN  [n \in 1..Len(exact) |-> [hook |-> exact[n], kind |-> "exact"]]
        \o [n \in 1..Len(every) |-> [hook |-> every[n], kind |-> "every"]]


(***************************************************************************)
(* Source text: a sequence of characters.                                  *)
(***************************************************************************)
IsDigit(c) == c \in {"0", "1", "2", "3", "4", "5", "6", "7", "8", "9"}

IsAlpha(c) ==
    c \in {"a", "b", "c", "d", "e", "f", "g", "h", "i", "j", "k", "l", "m",
           "n", "o", "p", "q", "r", "s", "t", "u", "v", "w", "x", "y", "z",
           "A", "B", "C", "D", "E", "F", "G", "H", "I", "J", "K", "L", "M",
           "N", "O", "P", "Q", "R", "S", "T", "U", "V", "W", "X", "Y", "Z"}

StartsWith(s, p) == Len(s) >= Len(p) /\ SubSeq(s, 1, Len(p)) = p

\* s.replace(old, new): the non-overlapping occurrences of old, from the left
RECURSIVE str_replace(_, _, _)
str_replace(s, old, new) ==
    IF s = <<>> THEN <<>>
    ELSE IF StartsWith(s, old)
         THEN new \o str_replace(SubSeq(s, Len(old) + 1, Len(s)), old, new)
         ELSE <<Head(s)>> \o str_replace(Tail(s), old, new)

\* The number of digits s starts with.
RECURSIVE SpanDigits(_)
SpanDigits(s) == IF s # <<>> /\ IsDigit(Head(s)) THEN 1 + SpanDigits(Tail(s)) ELSE 0

\* ([0-9]+\.[0-9]*)f([^a-zA-Z0-9\.]) matched at the start of s: the length of
\* group 1, or 0 when there is no match.  Group 2 is the character after the f.
LiteralMatch(s) ==
    LET d1 == SpanDigits(s)
        d2 == SpanDigits(SubSeq(s, d1 + 2, Len(s)))
        g == d1 + 1 + d2
    IN  IF /\ d1 > 0
           /\ Len(s) >= g + 2
           /\ s[d1 + 1] = "."
           /\ s[g + 1] = "f"
           /\ ~(IsAlpha(s[g + 2]) \/ IsDigit(s[g + 2]) \/ s[g + 2] = ".")
        THEN g ELSE 0

\* the pattern without its trailing group: ([0-9]+\.[0-9]*)f
LiteralMatchNoTrail(s) ==
    LET d1 == SpanDigits(s)
        d2 == SpanDigits(SubSeq(s, d1 + 2, Len(s)))
        g == d1 + 1 + d2
    IN  IF d1 > 0 /\ Len(s) >= g + 1 /\ s[d1 + 1] = "." /\ s[g + 1] = "f" THEN g ELSE 0

\* re.sub(pattern, '\\1\\2', s): the matches from the left, each replaced by its
\* two groups (the f between them dropped)
RECURSIVE re_sub(_)
re_sub(s) ==
    IF s = <<>> THEN <<>>
    ELSE LET g == LiteralMatch(s)
         IN  IF g > 0
             THEN SubSeq(s, 1, g) \o <<s[g + 2]>> \o re_sub(SubSeq(s, g + 3, Len(s)))
             ELSE <<Head(s)>> \o re_sub(Tail(s))

RECURSIVE re_sub_notrail(_)
re_sub_notrail(s) ==
    IF s = <<>> THEN <<>>
    ELSE LET g == LiteralMatchNoTrail(s)
         IN  IF g > 0
             THEN SubSeq(s, 1, g) \o re_sub_notrail(SubSeq(s, g + 2, Len(s)))
             ELSE <<Head(s)>> \o re_sub_notrail(Tail(s))

Float == <<"f", "l", "o", "a", "t">>

Double == <<"d", "o", "u", "b", "l", "e">>

\* _convert_to_double whose pattern drops the f of a literal whatever follows it
_convert_to_double_notrail(src) == re_sub_notrail(str_replace(src, Float, Double))

(***************************************************************************)
(* _convert_to_double, lines 46-48.                                        *)
(***************************************************************************)
_convert_to_double(src) == re_sub(str_replace(src, Float, Double))

(***************************************************************************)
(* LBMSim._init_code, lines 385-403: what it leaves behind.  The file      *)
(* options.save_src names holds what `print >>fsrc, src` wrote, the text   *)
(* and a newline; the file options.use_src names is another file.  ok is   *)
(* false when reading the override raised.                                 *)
(***************************************************************************)
NoFile == [written |-> FALSE, text |-> <<>>, formatted |-> FALSE]

NoMod == [built |-> FALSE, src |-> <<>>]

\* The text after lines 385-388.
Generated == IF options.precision = "double" THEN _convert_to_double(rendered) ELSE rendered

\* _init_code that returns the override as soon as one is configured
_init_code_override_first ==
    LET src == Generated
        gen == <<"render">> \o (IF options.precision = "double" THEN <<"convert">> ELSE <<>>)
    IN  IF options.use_src # ""
        THEN IF use_file.readable
             THEN [ok |-> TRUE, save_file |-> save_file,
                   mod |-> [built |-> TRUE, src |-> use_file.text],
                   log |-> gen \o <<"read", "build">>]
             ELSE [ok |-> FALSE, save_file |-> save_file, mod |-> mod,
                   log |-> gen \o <<"read">>]
        ELSE [ok |-> TRUE,
              save_file |-> IF options.save_src # ""
                            THEN [written |-> TRUE, text |-> src \o <<"\n">>,
                                  formatted |-> options.format_src]
                            ELSE save_file,
              mod |-> [built |-> TRUE, src |-> src],
              log |-> gen \o (IF options.save_src # "" THEN <<"save">> ELSE <<>>)
                          \o <<"build">>]

_init_code ==
    LET src == Generated
        saved == IF options.save_src # ""
                 THEN [written |-> TRUE, text |-> src \o <<"\n">>,
                       formatted |-> options.format_src]
                 ELSE save_file
        log == <<"render">>
               \o (IF options.precision = "double" THEN <<"convert">> ELSE <<>>)
               \o (IF options.save_src # "" THEN <<"save">> ELSE <<>>)
               \o (IF options.save_src # "" /\ options.format_src THEN <<"format">> ELSE <<>>)
    IN  IF options.use_src # ""
        THEN IF use_file.readable
             THEN [ok |-> TRUE, save_file |-> saved,
                   mod |-> [built |-> TRUE, src |-> use_file.text],
                   log |-> log \o <<"read", "build">>]
             ELSE [ok |-> FALSE, save_file |-> saved, mod |-> mod,
                   log |-> log \o <<"read">>]
        ELSE [ok |-> TRUE, save_file |-> saved,
              mod |-> [built |-> TRUE, src |-> src],
              log |-> log \o <<"build">>]

(***************************************************************************)
(* Values (lines 36-44): optparse.Values that records the names assigned   *)
(* on it.  optparse.Values.__init__ assigns the parser's defaults before   *)
(* the set exists, so none of them is recorded; the assignment of the set  *)
(* itself goes through __setattr__ and records the name 'specified'.       *)
(***************************************************************************)
Values(parser_defaults) == [values |-> parser_defaults, specified |-> {"specified"}]

\* Values.__setattr__
setattr(v, name, value) ==
    [values |-> [v.values EXCEPT ![name] = value],
     specified |-> v.specified \cup {name}]

\* parser.parse_args(args, self.options), line 176: optparse stores each
\* setting it reads with setattr(values, dest, value), in command-line order.
RECURSIVE parse_args(_, _)
parse_args(a, v) ==
    IF a = <<>> THEN v
    ELSE parse_args(Tail(a), setattr(v, Head(a)[1], Head(a)[2]))

(***************************************************************************)
(* LBMSim.__init__, lines 181-185: the defaults mapping is applied to the  *)
(* options not yet specified.                                              *)
(***************************************************************************)
None == [given |-> FALSE, items |-> <<>>]

\* the loop without its test of self.options.specified
RECURSIVE set_defaults_unconditional(_, _)
set_defaults_unconditional(items, v) ==
    IF items = <<>> THEN v
    ELSE set_defaults_unconditional(Tail(items), setattr(v, Head(items)[1], Head(items)[2]))

RECURSIVE set_defaults(_, _)
set_defaults(items, v) ==
    IF items = <<>> THEN v
    ELSE set_defaults(Tail(items),
                      IF Head(items)[1] \notin v.specified
                      THEN setattr(v, Head(items)[1], Head(items)[2])
                      ELSE v)

\* lines 175-185
parse_options(parser_defaults, a, d) ==
    LET parsed == parse_args(a, Values(parser_defaults))
    IN  IF d.given THEN set_defaults(d.items, parsed) ELSE parsed

(***************************************************************************)
(* The grid descriptor says which models it supports (sym.py); _set_model, *)
(* lines 219-223, keeps the first supported model of its arguments and     *)
(* assigns nothing when there is none.                                     *)
(***************************************************************************)
Unset == "<unset>"

model_supported(x) == x \in grid_models

RECURSIVE _set_model(_, _)
_set_model(cur, models) ==
    IF models = <<>> THEN cur
    ELSE IF model_supported(Head(models)) THEN Head(models)
    ELSE _set_model(cur, Tail(models))

\* defaults.keys()
keys(items) == {items[n][1] : n \in 1..Len(items)}

\* FluidLBMSim.__init__, lines 791-796
select_model(v, d) ==
    IF "model" \notin v.specified /\ (~d.given \/ "model" \notin keys(d.items))
    THEN _set_model(Unset, <<v.values.model, "mrt", "bgk">>)
    ELSE _set_model(Unset, <<v.values.model>>)

(***************************************************************************)
(* LBMSim.__init__, lines 196-201: the engine after construction.          *)
(***************************************************************************)
NotStarted ==
    /\ iter_ = 0
    /\ mlups_calls = 0
    /\ mlups = <<0, 1>>
    /\ mlups_last = NoMlups
    /\ iter__hooks = <<>>
    /\ iter__hooks_every = <<>>
    /\ nhooks = 0
    /\ idx = 0
    /\ calls = 0
    /\ step = NoStep
    /\ prev = NoStep
    /\ ops = <<>>
    /\ pending = {}
    /\ fired = <<>>
    /\ save_file = NoFile
    /\ mod = NoMod
    /\ codelog = <<>>
    /\ allocated = <<>>
    /\ runlog = <<>>

InitEngine == NotStarted /\ pc = "ready"

\* The options and inputs of the setup phase at their defaults: no source is
\* saved, no external source is used, no initial-condition kernel is run.
DefaultLatNx == 128
DefaultLatNy == 128
DefaultLatNz == 1

DefaultOptions ==
    [lat_nx |-> DefaultLatNx, lat_ny |-> DefaultLatNy, lat_nz |-> DefaultLatNz,
     precision |-> "single", save_src |-> "", use_src |-> "", format_src |-> TRUE,
     model |-> "bgk", incompressible |-> FALSE]

\* An engine constructed with neither the model nor incompressible set, on
\* a grid that supports both models, and a backend that does not fail.
DefaultConstruction ==
    /\ args = <<>>
    /\ defaults = None
    /\ grid_models = {"bgk", "mrt"}
    /\ alloc_fail = 0
    /\ specified = parse_options(DefaultOptions, args, defaults).specified
    /\ lbm_model = select_model(parse_options(DefaultOptions, args, defaults), defaults)

DefaultSetup ==
    /\ ic_fields = FALSE
    /\ rendered = Float \o <<" ", "x", "=", "1", ".", "f", ";">>
    /\ use_file = [readable |-> FALSE, text |-> <<>>]
    /\ DefaultConstruction

Init ==
    /\ variant \in {"single", "twophase"}
    /\ dim \in {2, 3}
    /\ num_tracers \in {0, 2}
    /\ options \in
           {o @@ DefaultOptions :
            o \in [benchmark : BOOLEAN, batch : BOOLEAN, output : BOOLEAN,
                   every : 1..MaxEvery, max_iters : 0..MaxIters]}
    /\ DefaultSetup
    \* max_iters is read by _run_benchmark and _run_batch only
    /\ options.benchmark \/ options.batch \/ options.max_iters = 0
    /\ InitEngine

\* A batch-mode engine (options.batch set, options.benchmark not set).
InitBatch ==
    /\ variant \in {"single", "twophase"}
    /\ dim = 2
    /\ num_tracers = 0
    /\ options \in
           {o @@ DefaultOptions :
            o \in [benchmark : {FALSE}, batch : {TRUE}, output : BOOLEAN,
                   every : 1..MaxEvery, max_iters : -1..BatchIters]}
    /\ DefaultSetup
    \* without an output destination batch mode never reads every
    /\ options.output \/ options.every = 1
    /\ InitEngine

inputs == <<variant, dim, num_tracers, ic_fields, rendered, use_file, args,
            defaults, grid_models, alloc_fail>>

config == <<inputs, options, specified, lbm_model>>

codevars == <<save_file, mod, codelog, allocated, runlog>>

hookvars == <<iter__hooks, iter__hooks_every, nhooks>>

\* The variables an engine state e of sim_step stands for take its values.
Commit(e) ==
    /\ iter_' = e.iter_
    /\ calls' = e.calls
    /\ ops' = e.ops
    /\ step' = e.step
    /\ prev' = e.prev
    /\ pending' = e.pending

(***************************************************************************)
(* LBMSim.add_iter_hook(i, func, every), called before the first run (the  *)
(* hook table is populated before a run starts).  func is the number of    *)
(* the registration.                                                       *)
(***************************************************************************)
add_iter_hook(i, every) ==
    /\ pc = "ready"
    /\ nhooks' = nhooks + 1
    /\ IF every
       THEN /\ iter__hooks_every' = hooks_every_add(iter__hooks_every, i, nhooks + 1)
            /\ UNCHANGED iter__hooks
       ELSE /\ iter__hooks' = hooks_add(iter__hooks, i, nhooks + 1)
            /\ UNCHANGED iter__hooks_every
    /\ UNCHANGED <<config, codevars, iter_, mlups_calls, mlups, mlups_last,
                   pc, idx, calls, step, prev, ops, pending, fired>>

(***************************************************************************)
(* LBMSim.clear_hooks.                                                     *)
(***************************************************************************)
clear_hooks ==
    /\ pc = "ready"
    /\ nhooks > 0
    /\ iter__hooks' = <<>>
    /\ iter__hooks_every' = <<>>
    /\ UNCHANGED <<config, codevars, iter_, mlups_calls, mlups, mlups_last,
                   nhooks, pc, idx, calls, step, prev, ops, pending, fired>>

(***************************************************************************)
(* LBMSim.__init__ with FluidLBMSim.__init__: the options are parsed, the  *)
(* engine's counters and hook tables are reset, the model is selected.     *)
(* Before it, options holds the parser's built-in defaults.                *)
(***************************************************************************)
__init__ ==
    /\ pc = "new"
    /\ LET v == parse_options(options, args, defaults)
       IN  /\ options' = v.values
           /\ specified' = v.specified
           /\ lbm_model' = select_model(v, defaults)
    /\ iter_' = 0
    /\ mlups_calls' = 0
    /\ mlups' = <<0, 1>>
    /\ iter__hooks' = <<>>
    /\ iter__hooks_every' = <<>>
    /\ pc' = "ready"
    /\ UNCHANGED <<inputs, codevars, mlups_last, nhooks, idx, calls, step, prev,
                   ops, pending, fired>>

(***************************************************************************)
(* LBMSim._init_compute_fields, lines 438-470, and TwoPhase._init_compute_ *)
(* fields, lines 967-971: the buffers in the order they are allocated.  A  *)
(* backend.alloc_buf call that raises ends the method; the buffers         *)
(* allocated before it stay bound to the engine's attributes.              *)
(***************************************************************************)
float_fields == <<>>

field_buffers ==
    gpu_velocity \o <<"gpu_rho">>
    \o [n \in 1..Len(float_fields) |-> float_fields[n]]
    \o gpu_tracer_loc
    \o <<"gpu_dist1a", "gpu_dist1b">>
    \o (IF variant = "twophase" THEN <<"gpu_phi", "gpu_dist2a", "gpu_dist2b">> ELSE <<>>)

_init_compute_fields ==
    IF alloc_fail \in 1..Len(field_buffers)
    THEN [ok |-> FALSE, allocated |-> SubSeq(field_buffers, 1, alloc_fail - 1)]
    ELSE [ok |-> TRUE, allocated |-> field_buffers]

(***************************************************************************)
(* LBMSim.run, lines 739-763: the model check, then the setup stages in    *)
(* order, then the run mode is chosen once.  Reading self.lbm_model when   *)
(* _set_model assigned nothing raises AttributeError; an override file     *)
(* that cannot be read ends run() with the IOError, before anything is     *)
(* allocated, built or launched.  _run_batch starts with its assertion     *)
(* (line 709).                                                             *)
(***************************************************************************)
run_mode ==
    IF options.benchmark THEN "benchmark"
    ELSE IF options.batch THEN (IF options.max_iters > 0 THEN "batch" ELSE "failed")
    ELSE "vis"

run ==
    /\ pc = "ready"
    /\ idx' = 0
    /\ IF lbm_model = Unset
          THEN /\ pc' = "attribute_error"
               /\ UNCHANGED <<codevars, ops, pending>>
       ELSE IF ~model_supported(lbm_model)
          THEN /\ pc' = "config_error"
               /\ UNCHANGED <<codevars, ops, pending>>
       ELSE LET code == _init_code
                fields == _init_compute_fields
            IN  /\ save_file' = code.save_file
                /\ mod' = code.mod
                /\ codelog' = code.log
                /\ IF ~code.ok
                      THEN /\ pc' = "io_error"
                           /\ runlog' = <<"_init_geo", "_init_vis">>
                           /\ UNCHANGED <<allocated, ops, pending>>
                   ELSE IF ~fields.ok
                      THEN /\ pc' = "backend_error"
                           /\ runlog' = <<"_init_geo", "_init_vis", "_init_code">>
                           /\ allocated' = fields.allocated
                           /\ UNCHANGED <<ops, pending>>
                   ELSE /\ pc' = run_mode
                        /\ runlog' = <<"_init_geo", "_init_vis", "_init_code",
                                       "_init_compute_fields", "_init_compute_kernels",
                                       "_init_compute_ic", "_init_output">>
                        /\ allocated' = fields.allocated
                        /\ ops' = _init_compute_ic
                        /\ pending' = Queue(pending, _init_compute_ic)
    /\ UNCHANGED <<config, hookvars, iter_, mlups_calls, mlups, mlups_last, calls, step,
                   prev, fired>>

(***************************************************************************)
(* LBMSim._run_batch, lines 711-731: one iteration of the loop.  A hook is *)
(* a callback that returns; its invocation is recorded with the value of   *)
(* iter_ it sees, the branch the step before it took, the buffers that     *)
(* step copied to the host and the device work still queued.               *)
(***************************************************************************)
\* a loop that stops one iteration early
range_more_short(i, n) == i + 1 < n - 1

\* for i in range(0, n): whether another iteration follows iteration i
range_more(i, n) == i + 1 < n

Copied(calls_) == {calls_[n].buf : n \in {m \in 1..Len(calls_) : calls_[m].op = "from_buf"}}

_run_batch ==
    /\ pc = "batch"
    /\ LET nd == need_data(iter_)
           e == sim_step(Engine, FALSE, nd)
           due == IF nd THEN hooks_due(e.iter_) ELSE <<>>
       IN  /\ Commit(e)
           /\ fired' = fired \o [n \in 1..Len(due) |->
                                    [hook |-> due[n].hook, kind |-> due[n].kind,
                                     iter_ |-> e.iter_, data |-> e.step.data,
                                     copied |-> Copied(e.step.ops),
                                     pending |-> e.pending]]
    /\ idx' = idx + 1
    /\ pc' = IF range_more(idx, options.max_iters) THEN "batch" ELSE "done"
    /\ UNCHANGED <<config, codevars, hookvars, mlups_calls, mlups,
                   mlups_last>>

(***************************************************************************)
(* LBMSim._run_benchmark, lines 694-706: one pass of the while loop.       *)
(***************************************************************************)
\* _run_benchmark as a while loop: the exit test comes before the batch
_run_benchmark_while(tdiff) ==
    /\ pc = "benchmark"
    /\ IF options.max_iters <= iter_
       THEN /\ pc' = "done"
            /\ UNCHANGED <<iter_, calls, ops, step, prev, pending, mlups,
                           mlups_calls, mlups_last>>
       ELSE LET cycles == options.every
                e == sim_steps(Engine, cycles)
                m == get_mlups(tdiff, cycles, ActiveNodes)
            IN  /\ Commit([e EXCEPT !.ops = @ \o <<sync>>, !.pending = {}])
                /\ mlups' = m[1]
                /\ mlups_calls' = mlups_calls + 1
                /\ mlups_last' = MlupsCall(tdiff, cycles, m, {})
                /\ pc' = "benchmark"
    /\ UNCHANGED <<config, codevars, hookvars, idx, fired>>

\* _run_benchmark that takes the time without waiting for the device
_run_benchmark_nosync(tdiff) ==
    /\ pc = "benchmark"
    /\ LET cycles == options.every
           e == sim_steps(Engine, cycles)
           m == get_mlups(tdiff, cycles, ActiveNodes)
       IN  /\ Commit(e)
           /\ mlups' = m[1]
           /\ mlups_calls' = mlups_calls + 1
           /\ mlups_last' = MlupsCall(tdiff, cycles, m, e.pending)
           /\ pc' = IF options.max_iters <= e.iter_ THEN "done" ELSE "benchmark"
    /\ UNCHANGED <<config, codevars, hookvars, idx, fired>>

_run_benchmark(tdiff) ==
    /\ pc = "benchmark"
    /\ LET cycles == options.every
           e == sim_steps(Engine, cycles)
           synced == [e EXCEPT !.ops = @ \o <<sync>>, !.pending = Queue(@, <<sync>>)]
           m == get_mlups(tdiff, cycles, ActiveNodes)
       IN  /\ Commit(synced)
           /\ mlups' = m[1]
           /\ mlups_calls' = mlups_calls + 1
           /\ mlups_last' = MlupsCall(tdiff, cycles, m, synced.pending)
           /\ pc' = IF options.max_iters <= e.iter_ THEN "done" ELSE "benchmark"
    /\ UNCHANGED <<config, codevars, hookvars, idx, fired>>

(***************************************************************************)
(* The visualization driver (self.vis.main()): it calls sim_step, the      *)
(* hostsync_* methods and get_mlups as it likes, and returns.              *)
(***************************************************************************)
vis_sim_step(tracers, get_data) ==
    /\ pc = "vis"
    /\ Commit(sim_step(Engine, tracers, get_data))
    /\ UNCHANGED <<config, codevars, hookvars, mlups_calls, mlups, mlups_last,
                   pc, idx, fired>>

vis_hostsync(o) ==
    /\ pc = "vis"
    /\ ops' = o
    /\ pending' = Queue(pending, o)
    /\ UNCHANGED <<config, codevars, hookvars, iter_, mlups_calls, mlups,
                   mlups_last, pc, idx, calls, step, prev, fired>>

vis_get_mlups(tdiff, iters) ==
    /\ pc = "vis"
    /\ LET m == get_mlups(tdiff, iters, ActiveNodes)
       IN  /\ mlups' = m[1]
           /\ mlups_calls' = mlups_calls + 1
           /\ mlups_last' = MlupsCall(tdiff, iters, m, pending)
    /\ UNCHANGED <<config, codevars, hookvars, iter_, pc, idx, calls, step,
                   prev, ops, pending, fired>>

vis_return ==
    /\ pc = "vis"
    /\ pc' = "done"
    /\ UNCHANGED <<config, codevars, hookvars, iter_, mlups_calls, mlups,
                   mlups_last, idx, calls, step, prev, ops, pending, fired>>

(***************************************************************************)
(* The engine in all its run modes.  Hooks are registered where a run loop *)
(* follows (the visualization driver never reads them).                    *)
(***************************************************************************)
HooksRead == options.batch \/ options.benchmark

Next ==
    \/ \E i \in 0..MaxIters : HooksRead /\ nhooks < MaxHooks /\ add_iter_hook(i, FALSE)
    \/ \E k \in 1..MaxEvery : HooksRead /\ nhooks < MaxHooks /\ add_iter_hook(k, TRUE)
    \/ clear_hooks
    \/ run
    \/ _run_batch
    \/ \E tdiff \in 1..MaxTdiff : _run_benchmark(tdiff)
    \/ \E tracers \in BOOLEAN, get_data \in BOOLEAN :
           calls < MaxCalls /\ vis_sim_step(tracers, get_data)
    \/ vis_hostsync(hostsync_dist(iter_))
    \/ vis_hostsync(hostsync_velocity)
    \/ vis_hostsync(hostsync_density)
    \/ vis_hostsync(hostsync_tracers)
    \/ vis_return

Spec == Init /\ [][Next]_vars

(***************************************************************************)
(* The throughput meter: get_mlups called by the benchmark loop, or by the *)
(* visualization driver with any time difference and iteration count       *)
(* (iters = -1 stands for None).                                           *)
(***************************************************************************)
MaxMlupsCalls == 3   \* get_mlups calls made by the visualization driver
MaxMlupsIters == 3   \* the iters argument ranges over 1..MaxMlupsIters, or is None

InitMlups ==
    /\ variant = "single"
    /\ dim = 2
    /\ num_tracers = 0
    /\ options \in
           {o @@ DefaultOptions :
            o \in [benchmark : BOOLEAN, batch : {FALSE}, output : {FALSE},
                   every : 1..MaxEvery, max_iters : 0..MaxIters]}
    /\ DefaultSetup
    /\ options.benchmark \/ options.max_iters = 0
    /\ InitEngine

NextMlups ==
    \/ run
    \/ \E tdiff \in 1..MaxTdiff : _run_benchmark(tdiff)
    \/ \E tdiff \in 1..MaxTdiff, iters \in {-1} \cup (1..MaxMlupsIters) :
           mlups_calls < MaxMlupsCalls /\ vis_get_mlups(tdiff, iters)

SpecMlups == InitMlups /\ [][NextMlups]_vars

(***************************************************************************)
(* The setup of a run on lattices of any width: the kernels run() builds   *)
(* and the initial-condition kernels it launches.                          *)
(***************************************************************************)
MaxLatNx == 66       \* options.lat_nx ranges over 1..MaxLatNx
MaxLatNy == 2        \* options.lat_ny ranges over 1..MaxLatNy
MaxLatNz == 2        \* options.lat_nz ranges over 1..MaxLatNz on a 3D grid

InitGrid ==
    /\ variant \in {"single", "twophase"}
    /\ dim \in {2, 3}
    /\ num_tracers = 0
    /\ options \in
           {[DefaultOptions EXCEPT !.lat_nx = nx, !.lat_ny = ny, !.lat_nz = nz] @@ o :
            nx \in 1..MaxLatNx, ny \in 1..MaxLatNy, nz \in 1..MaxLatNz,
            o \in [benchmark : {FALSE}, batch : {FALSE}, output : {FALSE},
                   every : {1}, max_iters : {0}]}
    \* a 2D simulation leaves lat_nz at its default
    /\ dim = 2 => options.lat_nz = DefaultLatNz
    /\ ic_fields \in BOOLEAN
    /\ rendered = <<>>
    /\ use_file = [readable |-> FALSE, text |-> <<>>]
    /\ DefaultConstruction
    /\ InitEngine

SpecGrid == InitGrid /\ [][run]_vars

(***************************************************************************)
(* Source texts to generate code from: up to n pieces, each the type name, *)
(* a digit, a dot, the suffix letter, a punctuation mark or an underscore. *)
(***************************************************************************)
Pieces == {Float, <<"1">>, <<".">>, <<"f">>, <<";">>, <<"_">>}

RECURSIVE Texts(_)
Texts(n) ==
    IF n = 0 THEN {<<>>}
    ELSE LET T == Texts(n - 1) IN T \cup {t \o p : t \in T, p \in Pieces}

(***************************************************************************)
(* Code generation with every combination of precision, save_src and       *)
(* use_src; the override file holds a text of its own, or cannot be read.  *)
(***************************************************************************)
MaxCodePieces == 2   \* the rendered text has up to MaxCodePieces pieces in SpecCode

OverrideTexts == {Float, <<"1", ".", "f", ";">>}

InitCode ==
    /\ variant = "single"
    /\ dim = 2
    /\ num_tracers = 0
    /\ options \in
           {c @@ DefaultOptions @@ o :
            c \in [precision : {"single", "double"}, save_src : {"", "save.cu"},
                   use_src : {"", "use.cu"}, format_src : BOOLEAN],
            o \in [benchmark : {FALSE}, batch : {FALSE}, output : {FALSE},
                   every : {1}, max_iters : {0}]}
    \* format_src is read only when a text is saved
    /\ options.save_src # "" \/ options.format_src
    /\ ic_fields = FALSE
    /\ rendered \in Texts(MaxCodePieces)
    /\ use_file \in {[readable |-> FALSE, text |-> <<>>]}
                    \cup [readable : {TRUE}, text : OverrideTexts]
    \* without use_src no file is looked at
    /\ options.use_src # "" \/ ~use_file.readable
    /\ DefaultConstruction
    /\ InitEngine

SpecCode == InitCode /\ [][run]_vars

(***************************************************************************)
(* The double-precision transform applied to every source text of up to    *)
(* MaxPieces pieces, through the code generation of a double-precision     *)
(* run.                                                                    *)
(***************************************************************************)
MaxPieces == 5       \* the rendered text has up to MaxPieces pieces in SpecConvert

InitConvert ==
    /\ variant = "single"
    /\ dim = 2
    /\ num_tracers = 0
    /\ options \in
           {[DefaultOptions EXCEPT !.precision = "double"] @@ o :
            o \in [benchmark : {FALSE}, batch : {FALSE}, output : {FALSE},
                   every : {1}, max_iters : {0}]}
    /\ ic_fields = FALSE
    /\ rendered \in Texts(MaxPieces)
    /\ use_file = [readable |-> FALSE, text |-> <<>>]
    /\ DefaultConstruction
    /\ InitEngine

SpecConvert == InitConvert /\ [][run]_vars

(***************************************************************************)
(* Construction: any command line of up to MaxArgs settings of the options *)
(* model and incompressible, any defaults mapping over them (or none), on  *)
(* a grid that supports both models or only one of them.  The other        *)
(* options keep the parser's built-in defaults.                            *)
(***************************************************************************)
MaxArgs == 2         \* the command line holds up to MaxArgs settings
DefaultEvery == 100
DefaultMaxIters == 0

ParserDefaults ==
    [benchmark |-> FALSE, batch |-> FALSE, output |-> FALSE, every |-> DefaultEvery,
     max_iters |-> DefaultMaxIters] @@ DefaultOptions

\* --model is a choice of 'bgk' and 'mrt'; --incompressible stores True
ArgSettings == {<<"model", "bgk">>, <<"model", "mrt">>, <<"incompressible", TRUE>>}

RECURSIVE ArgLists(_)
ArgLists(n) ==
    IF n = 0 THEN {<<>>}
    ELSE LET A == ArgLists(n - 1) IN A \cup {Append(a, s) : a \in A, s \in ArgSettings}

\* the items of a dictionary: no key twice, in any order
DefaultItems ==
    LET S == ArgSettings \cup {<<"incompressible", FALSE>>}
    IN  {<<>>} \cup {<<s>> : s \in S}
        \cup {p \in S \X S : p[1][1] # p[2][1]}

InitOptions ==
    /\ variant = "single"
    /\ dim = 2
    /\ num_tracers = 0
    /\ options = ParserDefaults
    /\ ic_fields = FALSE
    /\ rendered = <<>>
    /\ use_file = [readable |-> FALSE, text |-> <<>>]
    /\ args \in ArgLists(MaxArgs)
    /\ defaults \in {None} \cup [given : {TRUE}, items : DefaultItems]
    /\ grid_models \in {{"bgk", "mrt"}, {"mrt"}, {"bgk"}}
    /\ alloc_fail = 0
    /\ specified = {}
    /\ lbm_model = Unset
    /\ NotStarted
    /\ pc = "new"

NextOptions == __init__ \/ run

SpecOptions == InitOptions /\ [][NextOptions]_vars

(***************************************************************************)
(* Device buffers: a batch run of either engine in which any one of the    *)
(* backend.alloc_buf calls may raise.                                      *)
(***************************************************************************)
InitFields ==
    /\ variant \in {"single", "twophase"}
    /\ dim \in {2, 3}
    /\ num_tracers \in {0, 2}
    /\ options \in
           {o @@ DefaultOptions :
            o \in [benchmark : {FALSE}, batch : {TRUE}, output : {FALSE},
                   every : {1}, max_iters : 1..MaxIters]}
    /\ ic_fields = FALSE
    /\ rendered = <<>>
    /\ use_file = [readable |-> FALSE, text |-> <<>>]
    /\ args = <<>>
    /\ defaults = None
    /\ grid_models = {"bgk", "mrt"}
    /\ alloc_fail \in 0..Len(field_buffers)
    /\ specified = parse_options(DefaultOptions, args, defaults).specified
    /\ lbm_model = select_model(parse_options(DefaultOptions, args, defaults), defaults)
    /\ InitEngine

NextFields == run \/ _run_batch

SpecFields == InitFields /\ [][NextFields]_vars

(***************************************************************************)
(* Batch mode with its hooks.  Exact-match hooks are registered for the    *)
(* first index, an index in the middle, the last index of the run and the  *)
(* first index beyond it.                                                  *)
(***************************************************************************)
HookIndices == {0, 5, options.max_iters - 1, options.max_iters} \cap (0..BatchIters)

NextBatch ==
    \/ \E i \in HookIndices : nhooks < BatchHooks /\ add_iter_hook(i, FALSE)
    \/ \E k \in 1..MaxInterval : nhooks < BatchHooks /\ add_iter_hook(k, TRUE)
    \/ run
    \/ _run_batch

SpecBatch == InitBatch /\ [][NextBatch]_vars


(***************************************************************************)
(* What a step did, read off the backend calls it made.                    *)
(***************************************************************************)
\* The parameters of the CollideAndPropagate kernel: (map, dist_in, dist_out, ...)
\* for the single-fluid kernel, (map, dist1_in, dist1_out, dist2_in, dist2_out, ...)
\* for the two-phase one.
DistIn(kern) ==
    IF variant = "twophase" THEN {kern.args[2], kern.args[4]} ELSE {kern.args[2]}

DistOut(kern) ==
    IF variant = "twophase" THEN {kern.args[3], kern.args[5]} ELSE {kern.args[3]}

BuffersA == IF variant = "twophase" THEN {"gpu_dist1a", "gpu_dist2a"} ELSE {"gpu_dist1a"}

BuffersB == IF variant = "twophase" THEN {"gpu_dist1b", "gpu_dist2b"} ELSE {"gpu_dist1b"}

IsLaunch(c, name) == c.op = "run_kernel" /\ c.kern.name = name

Launches(st, name) == SelectSeq(st.ops, LAMBDA c : IsLaunch(c, name))

\* The collide-and-propagate kernel a step launched (its first one).
CnP(st) == Launches(st, "CollideAndPropagate")[1].kern

Flag(kern) == kern.args[Len(kern.args)]

CopiedSeq(st) ==
    LET cs == SelectSeq(st.ops, LAMBDA c : c.op = "from_buf")
    IN  [n \in 1..Len(cs) |-> cs[n].buf]

Range(f) == {f[x] : x \in DOMAIN f}

\* The plain and the write-macroscopic descriptor of one parity.
Plain(parity) ==
    IF variant = "twophase" THEN TwoPhase_kern_map(parity)[2] ELSE kern_map(parity)[1]

WriteMacro(parity) ==
    IF variant = "twophase" THEN TwoPhase_kern_map(parity)[3] ELSE kern_map(parity)[2]

(***************************************************************************)
(* C1: iter_ is 0 after construction and counts the sim_step calls: every  *)
(* call, whichever branch it takes, adds one, and no other operation of    *)
(* the engine changes it.                                                  *)
(***************************************************************************)
C1_IterCountsSteps ==
    /\ iter_ = calls
    /\ (pc = "ready" => iter_ = 0)
    /\ (step # NoStep => step.iter_after = step.i + 1 /\ step.iter_after <= iter_)
    /\ (prev # NoStep => step.i = prev.i + 1)

C1_Witness ==
    /\ calls = 3
    /\ iter_ = 3
    /\ step.data
    /\ ~prev.data
    /\ pc = "vis"
    /\ ops = hostsync_density

(***************************************************************************)
(* C2: the distribution buffers strictly alternate.  A step at even iter_  *)
(* reads the A buffers and writes the B buffers, a step at odd iter_ the   *)
(* other way round, so each step reads what the step before it wrote and   *)
(* no buffer is written (or read) by two consecutive steps.  The plain and *)
(* the write-macroscopic descriptor of one parity differ only in the flag. *)
(***************************************************************************)
C2_BuffersAlternate ==
    /\ step # NoStep =>
           /\ Len(Launches(step, "CollideAndPropagate")) = 1
           /\ DistIn(CnP(step)) = (IF step.i % 2 = 0 THEN BuffersA ELSE BuffersB)
           /\ DistOut(CnP(step)) = (IF step.i % 2 = 0 THEN BuffersB ELSE BuffersA)
    /\ prev # NoStep =>
           /\ DistIn(CnP(step)) = DistOut(CnP(prev))
           /\ DistOut(CnP(step)) \cap DistOut(CnP(prev)) = {}
           /\ DistIn(CnP(step)) \cap DistIn(CnP(prev)) = {}
    /\ \A parity \in {0, 1} :
           LET n == Plain(parity).args
               v == WriteMacro(parity).args
           IN  /\ Len(n) = Len(v)
               /\ SubSeq(n, 1, Len(n) - 1) = SubSeq(v, 1, Len(v) - 1)
               /\ Flag(Plain(parity)) = "uint32(0)"
               /\ Flag(WriteMacro(parity)) = "uint32(1)"
               /\ DistIn(Plain(parity)) = DistIn(WriteMacro(parity))
               /\ DistOut(Plain(parity)) = DistOut(WriteMacro(parity))

C2_Witness ==
    /\ calls = 2
    /\ variant = "twophase"
    /\ prev.data
    /\ ~step.data
    /\ DistIn(CnP(prev)) = BuffersA
    /\ DistOut(CnP(step)) = BuffersA

(***************************************************************************)
(* C8: a no-data step of the single-fluid engine launches exactly one      *)
(* collide-and-propagate kernel, the plain descriptor of the parity of the *)
(* step; it launches the tracer kernel of that parity exactly when tracers *)
(* were requested; it copies nothing to the host and does not synchronize. *)
(***************************************************************************)
C8_NoDataStep ==
    (variant = "single" /\ step # NoStep /\ ~step.data) =>
        /\ Len(Launches(step, "CollideAndPropagate")) = 1
        /\ CnP(step) = kern_map(step.i % 2)[1]
        /\ Flag(CnP(step)) = "uint32(0)"
        /\ Launches(step, "LBMUpdateTracerParticles")
               = (IF step.tracers
                  THEN <<run_kernel(kern_map(step.i % 2)[3], "(num_tracers,)")>>
                  ELSE <<>>)
        /\ \A n \in 1..Len(step.ops) : step.ops[n].op = "run_kernel"
        /\ Len(step.ops) = (IF step.tracers THEN 2 ELSE 1)

C8_Witness ==
    /\ variant = "single"
    /\ ~step.data
    /\ step.tracers
    /\ step.i = 1
    /\ Len(step.ops) = 2

(***************************************************************************)
(* C9: a data-extraction step of the single-fluid engine launches the      *)
(* write-macroscopic descriptor of the parity first; then, with tracers,   *)
(* the tracer kernel and the copies of the tracer positions; then copies   *)
(* every velocity component and the density.  Every copy comes after the   *)
(* kernel launch and is followed by a sync before the step returns: no     *)
(* device work is outstanding when iter_ is incremented.                   *)
(***************************************************************************)
C9_ExtractionStep ==
    (variant = "single" /\ step # NoStep /\ step.data) =>
        LET o == step.ops
            nt == IF step.tracers THEN Len(gpu_tracer_loc) ELSE 0
        IN  /\ o[1] = run_kernel(kern_map(step.i % 2)[2], "kern_grid_size")
            /\ Flag(o[1].kern) = "uint32(1)"
            /\ Len(Launches(step, "CollideAndPropagate")) = 1
            /\ IF step.tracers
               THEN /\ o[2] = run_kernel(kern_map(step.i % 2)[3], "(num_tracers,)")
                    /\ Len(Launches(step, "LBMUpdateTracerParticles")) = 1
               ELSE Launches(step, "LBMUpdateTracerParticles") = <<>>
            /\ CopiedSeq(step)
                   = (IF step.tracers THEN gpu_tracer_loc ELSE <<>>)
                     \o gpu_velocity \o <<"gpu_rho">>
            /\ \A n \in 1..Len(o) :
                   o[n].op = "from_buf" =>
                       /\ n > 1
                       /\ \A m \in 1..Len(o) : o[m].op = "run_kernel" => m < n
                       /\ \E m \in (n + 1)..Len(o) : o[m].op = "sync"
            /\ o[Len(o)] = sync
            /\ step.pending = {}

C9_Witness ==
    /\ variant = "single"
    /\ step.data
    /\ step.tracers
    /\ num_tracers # 0
    /\ dim = 3
    /\ step.i = 1
    /\ Len(step.ops) = 12

(***************************************************************************)
(* C10: every step of the two-phase engine first launches the prepare-     *)
(* macroscopic-fields kernel of the parity, bound to the distribution      *)
(* buffers this step's collide-and-propagate kernel reads, then            *)
(* synchronizes, then launches exactly one collide-and-propagate kernel:   *)
(* the write-macroscopic one followed by the velocity and density copies   *)
(* when data is requested, the plain one and no copy otherwise.            *)
(***************************************************************************)
C10_TwoPhaseStep ==
    (variant = "twophase" /\ step # NoStep) =>
        LET o == step.ops
        IN  /\ IsLaunch(o[1], "PrepareMacroFields")
            /\ o[1].kern = TwoPhase_kern_map(step.i % 2)[1]
            /\ {o[1].kern.args[2], o[1].kern.args[3]} = DistIn(CnP(step))
            /\ Len(Launches(step, "PrepareMacroFields")) = 1
            /\ o[2] = sync
            /\ IsLaunch(o[3], "CollideAndPropagate")
            /\ Len(Launches(step, "CollideAndPropagate")) = 1
            /\ DistIn(CnP(step)) = (IF step.i % 2 = 0 THEN BuffersA ELSE BuffersB)
            /\ IF step.data
               THEN /\ Flag(CnP(step)) = "uint32(1)"
                    /\ CopiedSeq(step) = gpu_velocity \o <<"gpu_rho">>
                    /\ \A n \in 4..Len(o) : o[n].op \in {"from_buf", "sync"}
                    /\ o[Len(o)] = sync
               ELSE /\ Flag(CnP(step)) = "uint32(0)"
                    /\ Len(o) = 3

C10_Witness ==
    /\ variant = "twophase"
    /\ step.data
    /\ step.i = 1
    /\ step.tracers
    /\ Len(step.ops) = 3 + Len(gpu_velocity) + 3


(***************************************************************************)
(* Batch mode: the hooks and the completed indices.                        *)
(***************************************************************************)
\* Whether a hook is due after the step of index i.
HookDue(i) ==
    \/ i \in DOMAIN iter__hooks
    \/ \E n \in 1..Len(iter__hooks_every) : i % iter__hooks_every[n].k = 0

\* How often hook h has been invoked.
Invocations(h) == Cardinality({n \in 1..Len(fired) : fired[n].hook = h})

\* The item of iter__hooks_every that holds hook h.
ItemOf(h) == CHOOSE n \in 1..Len(iter__hooks_every) : h \in Range(iter__hooks_every[n].hooks)

SameStep(n, m) == n < m /\ fired[n].iter_ = fired[m].iter_

(***************************************************************************)
(* C3: in batch mode a hook fires only after the step of its index has     *)
(* completed: an exact-match hook for index i runs when iter_ is i + 1, a  *)
(* periodic hook of interval k after every completed index i with          *)
(* i % k = 0, index 0 included.  With max_iters = 10, an exact-match hook  *)
(* at 5 and a periodic hook of interval 3 the firing sequence is periodic  *)
(* after 0, 3, exact after 5, periodic after 6, 9, and nothing else.       *)
(***************************************************************************)
C3_HooksAfterCompletedIndex ==
    /\ \A n \in 1..Len(fired) :
           LET f == fired[n]
           IN  /\ 1 <= f.iter_ /\ f.iter_ <= iter_
               /\ f.kind = "exact" =>
                      /\ (f.iter_ - 1) \in DOMAIN iter__hooks
                      /\ f.hook \in Range(iter__hooks[f.iter_ - 1])
               /\ f.kind = "every" =>
                      \E m \in 1..Len(iter__hooks_every) :
                          /\ f.hook \in Range(iter__hooks_every[m].hooks)
                          /\ (f.iter_ - 1) % iter__hooks_every[m].k = 0
    /\ \A i \in DOMAIN iter__hooks : \A h \in Range(iter__hooks[i]) :
           i < iter_ =>
               \E n \in 1..Len(fired) :
                   fired[n].hook = h /\ fired[n].iter_ = i + 1 /\ fired[n].kind = "exact"
    /\ \A m \in 1..Len(iter__hooks_every) : \A h \in Range(iter__hooks_every[m].hooks) :
           \A i \in 0..(iter_ - 1) :
               i % iter__hooks_every[m].k = 0 =>
                   Cardinality({n \in 1..Len(fired) :
                       fired[n].hook = h /\ fired[n].iter_ = i + 1 /\ fired[n].kind = "every"}) = 1
    /\ ( /\ options.max_iters = 10
         /\ pc = "done"
         /\ DOMAIN iter__hooks = {5}
         /\ Len(iter__hooks[5]) = 1
         /\ Len(iter__hooks_every) = 1
         /\ iter__hooks_every[1].k = 3
         /\ Len(iter__hooks_every[1].hooks) = 1 )
       => [n \in 1..Len(fired) |-> <<fired[n].kind, fired[n].iter_ - 1>>]
              = << <<"every", 0>>, <<"every", 3>>, <<"exact", 5>>, <<"every", 6>>,
                   <<"every", 9>> >>

C3_Witness ==
    /\ options.max_iters = 10
    /\ pc = "done"
    /\ DOMAIN iter__hooks = {5}
    /\ Len(iter__hooks_every) = 1
    /\ iter__hooks_every[1].k = 3
    /\ Len(fired) = 5
    /\ iter_ = 10

(***************************************************************************)
(* C4: in a batch run started at iter_ = 0 every exact-match hook for an   *)
(* index i < max_iters is invoked exactly once before run returns, the     *)
(* hook for the last index max_iters - 1 included; a hook for an index     *)
(* >= max_iters is never invoked; the step before each invocation was an   *)
(* extraction step: velocity and density were copied to the host and the   *)
(* device was synchronized.                                                *)
(***************************************************************************)
C4_ExactHooksOnce ==
    /\ pc \in {"batch", "done"} =>
           \A i \in DOMAIN iter__hooks : \A h \in Range(iter__hooks[i]) :
               Invocations(h) = (IF i < iter_ THEN 1 ELSE 0)
    /\ pc = "done" =>
           \A i \in DOMAIN iter__hooks : \A h \in Range(iter__hooks[i]) :
               Invocations(h) = (IF i < options.max_iters THEN 1 ELSE 0)
    /\ \A n \in 1..Len(fired) :
           /\ fired[n].data
           /\ (Range(gpu_velocity) \cup {"gpu_rho"}) \subseteq fired[n].copied
           /\ fired[n].pending = {}

C4_Witness ==
    /\ pc = "done"
    /\ DOMAIN iter__hooks = {options.max_iters - 1, options.max_iters}
    /\ Len(fired) = 1
    /\ fired[1].iter_ = options.max_iters
    /\ options.max_iters = 4

C6_ExtractionIffHookDue ==
    (pc \in {"batch", "done"} /\ step # NoStep) => (step.data <=> HookDue(step.i))

(***************************************************************************)
(* C6 amended: in batch mode (every >= 1) the step of index i is an        *)
(* extraction step if and only if a hook is due after i, or an output      *)
(* destination is configured and i is a multiple of `every`.               *)
(***************************************************************************)
C6_ExtractionIffHookOrOutput ==
    (pc \in {"batch", "done"} /\ step # NoStep) =>
        (step.data <=> (HookDue(step.i) \/ (options.output /\ step.i % options.every = 0)))

C6_Witness ==
    /\ pc = "batch"
    /\ step.data
    /\ ~HookDue(step.i)
    /\ options.output
    /\ options.every = 2
    /\ step.i = 2
    /\ nhooks = 2

(***************************************************************************)
(* C7: batch mode requires max_iters > 0.  With max_iters <= 0 it fails on *)
(* its assertion without executing a step; with max_iters > 0 (the run     *)
(* starts at iter_ = 0) it returns after exactly max_iters sim_step calls  *)
(* with iter_ = max_iters.  While it runs fewer than max_iters steps are   *)
(* done and each loop iteration does one, so it terminates.                *)
(***************************************************************************)
C7_BatchRunsMaxIters ==
    /\ (pc # "ready" /\ options.max_iters <= 0) => (pc = "failed" /\ calls = 0 /\ iter_ = 0)
    /\ pc = "failed" => options.max_iters <= 0
    /\ pc = "batch" =>
           /\ options.max_iters > 0
           /\ 0 <= idx /\ idx < options.max_iters
           /\ calls = idx
           /\ iter_ = idx
    /\ pc = "done" =>
           /\ options.max_iters > 0
           /\ idx = options.max_iters
           /\ calls = options.max_iters
           /\ iter_ = options.max_iters

C7_Witness ==
    /\ pc = "done"
    /\ options.max_iters = 10
    /\ calls = 10
    /\ iter_ = 10
    /\ Len(fired) >= 11

(***************************************************************************)
(* Benchmark mode.                                                         *)
(***************************************************************************)
InBenchmark == options.benchmark /\ pc \in {"benchmark", "done"}

\* The collide-and-propagate launches among the backend calls cs.
CnPLaunches(cs) == SelectSeq(cs, LAMBDA c : IsLaunch(c, "CollideAndPropagate"))

(***************************************************************************)
(* C11: benchmark mode ignores hooks and output.  Whatever hooks are       *)
(* registered and whatever every, batch and output are, every step of a    *)
(* benchmark run takes the no-data branch (plain kernels only, nothing     *)
(* copied to the host), no hook is invoked and _output_data is not called. *)
(***************************************************************************)
C11_BenchmarkIgnoresHooks ==
    InBenchmark =>
        /\ fired = <<>>
        /\ \A st \in {step, prev} :
               st # NoStep => (~st.data /\ st.output = <<>> /\ CopiedSeq(st) = <<>>)
        /\ \A n \in 1..Len(ops) : ops[n].op # "from_buf"
        /\ \A n \in 1..Len(CnPLaunches(ops)) :
               Flag(CnPLaunches(ops)[n].kern) = "uint32(0)"

C11_Witness ==
    /\ InBenchmark
    /\ options.batch
    /\ options.output
    /\ options.every = 1
    /\ 0 \in DOMAIN iter__hooks
    /\ pc = "done"
    /\ calls = 2

\* The smallest integer not below a / b.
Ceil(a, b) == (a + b - 1) \div b

Max(a, b) == IF a >= b THEN a ELSE b

(***************************************************************************)
(* C12: benchmark mode (every >= 1) runs whole batches of `every` steps,   *)
(* at least one, and stops after the first batch at whose end              *)
(* iter_ >= max_iters: while it runs iter_ is a multiple of every that is  *)
(* 0 or below max_iters, and at exit                                       *)
(* iter_ = every * max(1, ceil(max_iters / every)).  Every pass of the     *)
(* loop adds every >= 1 to iter_, so the loop terminates.                  *)
(***************************************************************************)
C12_BenchmarkTerminates ==
    options.benchmark =>
        /\ pc = "benchmark" =>
               /\ iter_ % options.every = 0
               /\ iter_ = 0 \/ iter_ < options.max_iters
               /\ mlups_calls * options.every = iter_
        /\ pc = "done" =>
               /\ iter_ = options.every * Max(1, Ceil(options.max_iters, options.every))
               /\ iter_ >= options.max_iters
               /\ iter_ - options.every < options.max_iters \/ iter_ = options.every
               /\ calls = iter_
               /\ mlups_calls * options.every = iter_

C12_Witness ==
    /\ options.benchmark
    /\ pc = "done"
    /\ options.every = 2
    /\ options.max_iters = 1
    /\ iter_ = 2

\* The positions of the sync calls among the backend calls cs.
Syncs(cs) == {n \in 1..Len(cs) : cs[n].op = "sync"}

\* A benchmark batch has been run: ops holds its backend calls.
BatchDone == InBenchmark /\ mlups_calls > 0

(***************************************************************************)
(* C13 as claimed: in benchmark mode the host synchronizes exactly once    *)
(* per batch, after all the kernel launches of the batch and before the    *)
(* time is taken and get_mlups is called.                                  *)
(***************************************************************************)
C13_OneSyncPerBatch ==
    BatchDone =>
        /\ Syncs(ops) = {Len(ops)}
        /\ Len(CnPLaunches(ops)) = options.every
        /\ mlups_last.pending = {}

(***************************************************************************)
(* C13 amended: _run_benchmark synchronizes once per batch, after all the  *)
(* steps of the batch have been issued and before the time is taken and    *)
(* get_mlups is called, so nothing is queued when the batch is timed.  For *)
(* the single-fluid engine this is the only sync of the batch.  The        *)
(* two-phase engine also synchronizes inside every step, right after its   *)
(* PrepareMacroFields launch: its batch has every + 1 syncs.               *)
(***************************************************************************)
C13_SyncPerBatch ==
    BatchDone =>
        /\ Len(ops) \in Syncs(ops)
        /\ Len(CnPLaunches(ops)) = options.every
        /\ mlups_last.pending = {}
        /\ variant = "single" =>
               /\ Syncs(ops) = {Len(ops)}
               /\ Len(ops) = options.every + 1
        /\ variant = "twophase" =>
               /\ Cardinality(Syncs(ops)) = options.every + 1
               /\ \A n \in Syncs(ops) \ {Len(ops)} :
                      n > 1 /\ IsLaunch(ops[n - 1], "PrepareMacroFields")
               /\ Len(ops) = 3 * options.every + 1

C13_Witness ==
    /\ BatchDone
    /\ variant = "twophase"
    /\ options.every = 2
    /\ Cardinality(Syncs(ops)) = 3
    /\ mlups_calls = 1

Interactive == ~options.benchmark /\ ~options.batch

C16_InteractiveExtraction ==
    (Interactive /\ step # NoStep) =>
        /\ step.data <=> (step.i % options.every = 0 \/ step.get_data)
        /\ step.data => Flag(CnP(step)) = "uint32(1)" /\ "gpu_rho" \in Range(CopiedSeq(step))
        /\ ~step.data => Flag(CnP(step)) = "uint32(0)" /\ CopiedSeq(step) = <<>>

C16_Witness ==
    /\ Interactive
    /\ options.every = 2
    /\ step.i = 1
    /\ step.get_data
    /\ step.data
    /\ prev.data
    /\ ~prev.get_data

(***************************************************************************)
(* C17: _output_data is called only within an extraction step, after the   *)
(* velocity and the density of that step were copied to the host and       *)
(* waited for, only when an output destination is configured, and with the *)
(* index of the step (iter_ before the increment).  It is called for index *)
(* i exactly when output is configured, the step is an extraction step and *)
(* i % every = 0, and at most once per step.                               *)
(***************************************************************************)
C17_OutputSink ==
    step # NoStep =>
        /\ Len(step.output) <= 1
        /\ step.output # <<>> <=>
               (options.output /\ step.data /\ step.i % options.every = 0)
        /\ step.output # <<>> =>
               /\ step.output = <<step.i>>
               /\ step.iter_after = step.i + 1
               /\ Range(gpu_velocity) \cup {"gpu_rho"} \subseteq Range(CopiedSeq(step))
               /\ step.ops[Len(step.ops)].op = "sync"
               /\ step.pending = {}

C17_Witness ==
    /\ step # NoStep
    /\ prev # NoStep
    /\ options.output
    /\ options.every = 2
    /\ step.data
    /\ step.i = 1
    /\ step.output = <<>>
    /\ prev.output = <<0>>

(***************************************************************************)
(* The setup of a run.                                                     *)
(***************************************************************************)
\* The kernels a run has built once it is past its setup.
KernelsBuilt ==
    (IF variant = "twophase"
     THEN Range(TwoPhase_kern_map(0)) \cup Range(TwoPhase_kern_map(1))
     ELSE Range(kern_map(0)) \cup Range(kern_map(1)))
    \cup {ops[n].kern : n \in {m \in 1..Len(ops) : ops[m].op = "run_kernel"}}

LatticeKernels == {"SetInitialConditions", "CollideAndPropagate", "PrepareMacroFields"}

(***************************************************************************)
(* C15: for every lat_nx >= 1 the launch block handed to the backend for   *)
(* every SetInitialConditions, CollideAndPropagate and PrepareMacroFields  *)
(* kernel has min(64, lat_nx) as its first component and 1 as every other  *)
(* component, two components on a 2D grid and three on a 3D grid.          *)
(***************************************************************************)
C15_LaunchBlockSize ==
    (pc # "ready" /\ mod.built) =>
        \A k \in KernelsBuilt :
            k.name \in LatticeKernels =>
                /\ Len(k.block) = dim
                /\ k.block[1] = (IF options.lat_nx < 64 THEN options.lat_nx ELSE 64)
                /\ \A n \in 2..Len(k.block) : k.block[n] = 1

C15_Witness ==
    /\ pc = "vis"
    /\ options.lat_nx = 3
    /\ dim = 3
    /\ variant = "twophase"
    /\ Len(ops) = 3
    /\ ops[2].kern.name = "SetInitialConditions"
    /\ ops[2].kern.block = <<3, 1, 1>>
    /\ kern_mac1.block = <<3, 1, 1>>

\* The position of event x in the log of _init_code.
Pos(x) == CHOOSE n \in 1..Len(codelog) : codelog[n] = x

Did(x) == \E n \in 1..Len(codelog) : codelog[n] = x

(***************************************************************************)
(* C18: with an external source configured (use_src) code generation still *)
(* runs and, when save_src is configured too, the generated and precision- *)
(* converted text is saved before the override is read; the text handed to *)
(* backend.build is the content of the override file.  Without an override *)
(* it is the generated text.  When the override cannot be read, build is   *)
(* never called.                                                           *)
(***************************************************************************)
C18_ExternalSource ==
    LET gen == IF options.precision = "double" THEN _convert_to_double(rendered)
                                               ELSE rendered
    IN  /\ pc = "ready" => (codelog = <<>> /\ ~mod.built /\ ~save_file.written)
        /\ pc # "ready" =>
               /\ codelog[1] = "render"
               /\ options.precision = "double" <=> Did("convert")
               /\ save_file.written <=> options.save_src # ""
               /\ options.save_src # "" =>
                      /\ save_file.text = gen \o <<"\n">>
                      /\ Did("save")
                      /\ options.use_src # "" => Pos("save") < Pos("read")
               /\ options.use_src = "" =>
                      /\ mod = [built |-> TRUE, src |-> gen]
                      /\ ~Did("read")
               /\ (options.use_src # "" /\ use_file.readable) =>
                      /\ mod = [built |-> TRUE, src |-> use_file.text]
                      /\ Pos("read") < Pos("build")
               /\ (options.use_src # "" /\ ~use_file.readable) =>
                      /\ ~mod.built
                      /\ ~Did("build")
                      /\ Did("read")
                      /\ pc = "io_error"
               /\ mod.built <=> Did("build")

C18_Witness ==
    /\ pc = "vis"
    /\ options.precision = "double"
    /\ options.save_src # ""
    /\ options.use_src # ""
    /\ rendered = Float
    /\ save_file.text = Double \o <<"\n">>
    /\ mod.src = <<"1", ".", "f", ";">>

(***************************************************************************)
(* C19: _convert_to_double is idempotent: converting a converted text      *)
(* changes nothing.                                                        *)
(***************************************************************************)
C19_ConvertIdempotent ==
    /\ _convert_to_double(_convert_to_double(rendered)) = _convert_to_double(rendered)
    /\ mod.built => _convert_to_double(mod.src) = mod.src

C19_Witness ==
    /\ mod.built
    /\ rendered = Float \o <<"1", ".", "f", ";">>
    /\ mod.src = Double \o <<"1", ".", ";">>

(***************************************************************************)
(* The tokens of a source text: an identifier, a number (a digit followed  *)
(* by letters, digits, underscores and dots) or a single other character.  *)
(***************************************************************************)
IsIdentChar(c) == IsAlpha(c) \/ IsDigit(c) \/ c = "_"

\* The length of the longest prefix of s made of identifier characters, and
\* of dots too when dots is set.
RECURSIVE SpanWord(_, _)
SpanWord(s, dots) ==
    IF s # <<>> /\ (IsIdentChar(Head(s)) \/ (dots /\ Head(s) = "."))
    THEN 1 + SpanWord(Tail(s), dots) ELSE 0

\* The length of the first token of the non-empty text s.
TokenLen(s) ==
    IF IsDigit(s[1]) THEN SpanWord(s, TRUE)
    ELSE IF IsIdentChar(s[1]) THEN SpanWord(s, FALSE)
    ELSE 1

\* A single-precision literal: digits, a dot, optional digits, the suffix f.
IsFloatLiteral(t) ==
    LET d1 == SpanDigits(t)
        d2 == SpanDigits(SubSeq(t, d1 + 2, Len(t)))
    IN  /\ d1 > 0
        /\ Len(t) = d1 + 1 + d2 + 1
        /\ t[d1 + 1] = "."
        /\ t[Len(t)] = "f"

\* The double-precision form of a literal or of the type name.
Widened(t) == IF t = Float THEN Double ELSE SubSeq(t, 1, Len(t) - 1)

\* out is s with some of its float literals and type references widened and
\* every other token as it was.
RECURSIVE OnlyWidened(_, _)
OnlyWidened(s, out) ==
    IF s = <<>> THEN out = <<>>
    ELSE LET n == TokenLen(s)
             t == SubSeq(s, 1, n)
             rest == SubSeq(s, n + 1, Len(s))
             w == Widened(t)
         IN  \/ /\ StartsWith(out, t)
                /\ OnlyWidened(rest, SubSeq(out, n + 1, Len(out)))
             \/ /\ t = Float \/ IsFloatLiteral(t)
                /\ StartsWith(out, w)
                /\ OnlyWidened(rest, SubSeq(out, Len(w) + 1, Len(out)))

(***************************************************************************)
(* C20: the double-precision transform changes only single-precision float *)
(* literals and references to the floating type; every other token, an     *)
(* identifier that contains the type name or a digit-dot-f sequence        *)
(* followed by an identifier character included, is left unchanged.        *)
(***************************************************************************)
C20_OnlyLiteralsAndType ==
    /\ OnlyWidened(rendered, _convert_to_double(rendered))
    /\ mod.built => OnlyWidened(rendered, mod.src)

(***************************************************************************)
(* Model selection.                                                        *)
(***************************************************************************)
Constructed == pc # "new"

RunStarted == pc \notin {"new", "ready"}

\* the model was given on the command line or in the defaults mapping
ModelExplicit == "model" \in specified

\* the first element of cand the grid supports
FirstSupported(cand) ==
    LET S == {n \in 1..Len(cand) : cand[n] \in grid_models}
    IN  IF S = {} THEN Unset ELSE cand[CHOOSE n \in S : \A m \in S : n <= m]

\* run() has not initialized the geometry, allocated a buffer, built the
\* kernels or made a step
NothingSetUp ==
    /\ runlog = <<>>
    /\ allocated = <<>>
    /\ ~mod.built
    /\ codelog = <<>>
    /\ calls = 0
    /\ ops = <<>>

\* run() with an explicitly selected model the grid does not support ends
\* with an exception before any setup; the exception is the AttributeError
\* of reading self.lbm_model.
UnsupportedModelEndsRun ==
    (RunStarted /\ ModelExplicit /\ options.model \notin grid_models)
        => (pc = "attribute_error" /\ NothingSetUp)

(***************************************************************************)
(* C21: selecting a model the grid does not support is a fatal             *)
(* configuration error reported at the start of run, before the geometry   *)
(* is initialized, a buffer is allocated, the kernels are built or a step  *)
(* is made; whenever run gets past the check the grid supports the         *)
(* selected model; a model not given explicitly is the first supported one *)
(* of the option value, 'mrt' and 'bgk'.                                   *)
(***************************************************************************)
C21_UnsupportedModelIsConfigError ==
    /\ (RunStarted /\ ModelExplicit /\ options.model \notin grid_models)
           => (pc = "config_error" /\ NothingSetUp)
    /\ (RunStarted /\ pc \notin {"config_error", "attribute_error"})
           => (lbm_model \in grid_models /\ runlog # <<>>)
    /\ (Constructed /\ ~ModelExplicit)
           => lbm_model = FirstSupported(<<options.model, "mrt", "bgk">>)

\* run() was called with an explicitly selected, unsupported model
C21_Witness ==
    /\ pc = "attribute_error"
    /\ ModelExplicit
    /\ options.model \notin grid_models
    /\ lbm_model = Unset
    /\ NothingSetUp

(***************************************************************************)
(* Option precedence.                                                      *)
(***************************************************************************)
OptionNames == DOMAIN ParserDefaults

OnCommandLine(k) == \E n \in 1..Len(args) : args[n][1] = k

\* the value of the last setting of k on the command line
CommandLineValue(k) ==
    LET S == {n \in 1..Len(args) : args[n][1] = k}
    IN  args[CHOOSE n \in S : \A m \in S : m <= n][2]

InDefaults(k) == defaults.given /\ \E n \in 1..Len(defaults.items) : defaults.items[n][1] = k

DefaultsValue(k) ==
    defaults.items[CHOOSE n \in 1..Len(defaults.items) : defaults.items[n][1] = k][2]

(***************************************************************************)
(* C22: after construction every option has its command-line value if it   *)
(* was given on the command line, otherwise the value of the defaults      *)
(* mapping if the mapping has it, otherwise the parser's built-in default; *)
(* an option name is in the set of explicitly set options exactly when it  *)
(* was given on the command line or overridden from the defaults mapping.  *)
(***************************************************************************)
C22_DefaultOverridePrecedence ==
    Constructed =>
        \A k \in OptionNames :
            /\ options[k] = IF OnCommandLine(k) THEN CommandLineValue(k)
                            ELSE IF InDefaults(k) THEN DefaultsValue(k)
                            ELSE ParserDefaults[k]
            /\ (k \in specified) <=> (OnCommandLine(k) \/ InDefaults(k))

\* the command line wins over the defaults mapping for one option, the
\* defaults mapping over the parser for another, and a third keeps the
\* parser's default
C22_Witness ==
    /\ Constructed
    /\ OnCommandLine("model") /\ InDefaults("model")
    /\ CommandLineValue("model") # DefaultsValue("model")
    /\ options.model = "mrt"
    /\ ~OnCommandLine("incompressible") /\ InDefaults("incompressible")
    /\ options.incompressible # ParserDefaults.incompressible
    /\ "every" \notin specified /\ options.every = ParserDefaults.every

(***************************************************************************)
(* Device buffers.                                                         *)
(***************************************************************************)
RunEnded == pc \in {"done", "failed", "io_error", "backend_error"}

\* The engine has no operation that releases a buffer: what alloc_buf
\* returned stays bound to the engine's attributes after run() has returned
\* or raised.
BuffersStayAllocated ==
    /\ pc \in {"batch", "done"} => allocated = field_buffers
    /\ pc = "backend_error" => allocated = SubSeq(field_buffers, 1, alloc_fail - 1)
    /\ "gpu_map" \notin Range(allocated)

(***************************************************************************)
(* C23: every device buffer the engine allocated is released when the run  *)
(* ends, and when a backend failure aborts the run every buffer allocated  *)
(* up to that point is released; the node-map buffer, which the engine     *)
(* borrows, is never released by it.                                       *)
(***************************************************************************)
C23_BuffersReleasedAtEnd ==
    /\ RunEnded => allocated = <<>>
    /\ "gpu_map" \notin Range(allocated)

\* a two-phase run in 3D with tracers has ended with all its buffers allocated
C23_Witness ==
    /\ pc = "done"
    /\ iter_ = options.max_iters
    /\ variant = "twophase" /\ dim = 3 /\ num_tracers # 0
    /\ allocated = field_buffers
    /\ {"gpu_vz", "gpu_rho", "gpu_tracer_z", "gpu_dist1a", "gpu_dist1b", "gpu_phi",
        "gpu_dist2b"} \subseteq Range(allocated)

(***************************************************************************)
(* Initial conditions.                                                     *)
(***************************************************************************)
SetupDone == "_init_compute_ic" \in Range(runlog)

\* the distribution buffers among the arguments of a launch
DistArgs(c) == Range(c.kern.args) \cap (BuffersA \cup BuffersB)

(***************************************************************************)
(* C24: with initial-condition fields the single-fluid setup launches      *)
(* SetInitialConditions exactly twice and then synchronizes once, both     *)
(* launches bound to the first argument list, so neither touches           *)
(* distribution buffer B; the two-phase setup binds the first launch to    *)
(* the A buffers and the second to the B buffers; without                  *)
(* initial-condition fields nothing is launched and nothing is waited for. *)
(***************************************************************************)
C24_InitialConditionLaunches ==
    SetupDone =>
        IF ~ic_fields THEN ops = <<>>
        ELSE /\ Len(ops) = 3
             /\ IsLaunch(ops[1], "SetInitialConditions")
             /\ IsLaunch(ops[2], "SetInitialConditions")
             /\ ops[3] = sync
             /\ pending = {}
             /\ IF variant = "twophase"
                THEN /\ DistArgs(ops[1]) = BuffersA
                     /\ DistArgs(ops[2]) = BuffersB
                ELSE /\ ops[1].kern.args = <<"gpu_dist1a">> \o gpu_velocity \o <<"gpu_rho">>
                     /\ ops[2].kern.args = ops[1].kern.args
                     /\ DistArgs(ops[1]) = {"gpu_dist1a"}
                     /\ DistArgs(ops[2]) = {"gpu_dist1a"}

\* the single-fluid setup in 3D has run with initial-condition fields
C24_Witness ==
    /\ SetupDone
    /\ ic_fields
    /\ variant = "single"
    /\ dim = 3
    /\ Len(ops) = 3
    /\ ops[2].kern.args = <<"gpu_dist1a", "gpu_vx", "gpu_vy", "gpu_vz", "gpu_rho">>

(***************************************************************************)
(* The distributions on the host.                                          *)
(***************************************************************************)
\* the last engine operation was hostsync_dist
DistSynced ==
    /\ ops # <<>>
    /\ ops[1].op = "from_buf"
    /\ ops[1].buf \in {"gpu_dist1a", "gpu_dist1b"}

(***************************************************************************)
(* C25: after n >= 1 completed sim_step calls hostsync_dist copies to the  *)
(* host the distribution buffer the most recent step wrote (B when iter_   *)
(* is odd, A when it is even), never the one that step only read, and      *)
(* synchronizes; at iter_ = 0 it copies buffer A.                          *)
(***************************************************************************)
C25_HostsyncDistCopiesWritten ==
    DistSynced =>
        /\ Len(ops) = 2
        /\ ops[2] = sync
        /\ pending = {}
        /\ ops[1].buf = (IF iter_ % 2 = 1 THEN "gpu_dist1b" ELSE "gpu_dist1a")
        /\ iter_ = calls
        /\ calls >= 1 =>
               /\ ops[1].buf \in DistOut(CnP(step))
               /\ ops[1].buf \notin DistIn(CnP(step))

\* hostsync_dist after two steps, the second of which wrote buffer A
C25_Witness ==
    /\ DistSynced
    /\ calls = 2
    /\ step.i = 1
    /\ ops = <<from_buf("gpu_dist1a"), sync>>
    /\ "gpu_dist1a" \in DistOut(CnP(step))
    /\ "gpu_dist1b" \in DistIn(CnP(step))

(***************************************************************************)
(* The launch grid.                                                        *)
(***************************************************************************)
RECURSIVE Product(_)
Product(s) == IF s = <<>> THEN 1 ELSE Head(s) * Product(Tail(s))

\* the threads a launch of kernel k on self.kern_grid_size starts
Threads(k) == Product(kern_grid_size) * Product(k.block)

\* the collide-and-propagate kernels run() built
CnPKernels == {k \in KernelsBuilt : k.name = "CollideAndPropagate"}

\* The launch covers the lattice when lat_nx is below the default block
\* size or a multiple of it, and leaves lat_nx % 64 columns out otherwise.
ThreadsLaunched ==
    SetupDone =>
        \A k \in CnPKernels :
            Threads(k) = (options.lat_nx - (IF options.lat_nx < BlockSizeDefault THEN 0
                                            ELSE options.lat_nx % BlockSizeDefault))
                         * options.lat_ny * options.lat_nz

(***************************************************************************)
(* C26: the launch grid of the collide-and-propagate kernel covers every   *)
(* lattice site: for every lat_nx, lat_ny, lat_nz >= 1 the number of       *)
(* blocks along x, lat_nx / block_size, times block_size is lat_nx, and    *)
(* the threads launched number lat_nx * lat_ny in 2D and lat_nx * lat_ny * *)
(* lat_nz in 3D, the value of get_dist_size.                               *)
(***************************************************************************)
C26_LaunchGridCoversLattice ==
    SetupDone =>
        \A k \in CnPKernels :
            /\ (options.lat_nx \div k.block[1]) * k.block[1] = options.lat_nx
            /\ Threads(k) = IF dim = 2 THEN options.lat_nx * options.lat_ny
                            ELSE options.lat_nx * options.lat_ny * options.lat_nz
            /\ Threads(k) = get_dist_size

\* a lattice 65 sites wide: one block of 64 threads along x
C26_Witness ==
    /\ SetupDone
    /\ options.lat_nx = 65
    /\ options.lat_ny = 2
    /\ dim = 2
    /\ kern_grid_size = <<1, 2>>
    /\ kern_cnp1 \in CnPKernels
    /\ kern_cnp1.block = <<64, 1>>
    /\ Threads(kern_cnp1) = 128
    /\ get_dist_size = 130

============================================================================
